---------------------------- MODULE Spec2Model ----------------------------
(***************************************************************************)
(* A model of pylearn2/models/dbm/ising.py: the visible and hidden layers  *)
(* of an Ising ({-1,+1}-valued) deep Boltzmann machine.                    *)
(*                                                                         *)
(* Numbers.  Real values are exact rationals <<n, d>> in lowest terms with *)
(* d > 0.  Two changes of variable keep the arithmetic exact:              *)
(*  - a bias value b (IsingVisible.bias, IsingHidden.b) is stored as the   *)
(*    rational exp(2b).  arctanh(m) is then (1+m)/(1-m), sigmoid(2b) is    *)
(*    e/(1+e), tanh(b) is (e-1)/(e+1) and the zero bias is 1;              *)
(*  - weights, column norms and max_col_norm are stored in multiples of    *)
(*    the guard 1e-7 of censor_updates (the rescaling of censor_updates is *)
(*    homogeneous, so x / 1e-7 obeys the same formula with guard 1).       *)
(***************************************************************************)
EXTENDS Integers, Sequences, FiniteSets, TLC

VARIABLES
    marginals,  \* the bias_from_marginals argument IsingVisible was built with
    bias,       \* IsingVisible.bias: None before construction, else a vector
    cfg,        \* IsingHidden constructor arguments kept on the object
    b,          \* IsingHidden.b
    W,          \* the parameter of IsingHidden.transformer (None: no transformer)
    space,      \* what set_input_space derived: requires_reformat, input_dim
    updates,    \* the pending update map's entry for W (None: W is not a key)
    proposed,   \* the value of updates before the last censor_updates call
    ncensor,    \* number of times censor_updates rescaled the current proposal
    vState,     \* Gibbs chain: state of the visible layer
    hState,     \* Gibbs chain: state of the hidden layer
    ret         \* the last call: [op, args, status, value]

vars == <<marginals, bias, cfg, b, W, space, updates, proposed, ncensor, vState, hState, ret>>

\* Python's None, and "no value", for sequence-valued fields
None == <<>>

-----------------------------------------------------------------------------
(* Exact rational arithmetic.                                              *)

Abs(x) == IF x < 0 THEN -x ELSE x

RECURSIVE Gcd(_, _)
Gcd(x, y) == IF y = 0 THEN x ELSE Gcd(y, x % y)

\* n/d in lowest terms with a positive denominator
Q(n, d) ==
    LET g == Gcd(Abs(n), Abs(d))
        s == IF d < 0 THEN -1 ELSE 1
    IN  <<s * (n \div g), s * (d \div g)>>

Num(x) == x[1]
Den(x) == x[2]
Whole(n) == <<n, 1>>

\* over the least common denominator
Add(x, y) ==
    LET g == Gcd(Den(x), Den(y))
    IN  Q(Num(x) * (Den(y) \div g) + Num(y) * (Den(x) \div g), (Den(x) \div g) * Den(y))
Neg(x)    == <<-Num(x), Den(x)>>
Sub(x, y) == Add(x, Neg(y))
\* cross-cancel before multiplying
Mul(x, y) ==
    LET p == Q(Num(x), Den(y))
        q == Q(Num(y), Den(x))
    IN  Q(Num(p) * Num(q), Den(p) * Den(q))
Div(x, y) == Mul(x, Q(Den(y), Num(y)))
Lt(x, y)  == Num(Sub(x, y)) < 0
Le(x, y)  == Num(Sub(x, y)) <= 0
AbsQ(x)   == <<Abs(Num(x)), Den(x)>>

RECURSIVE SumQ(_)
SumQ(s) == IF s = <<>> THEN Whole(0) ELSE Add(Head(s), SumQ(Tail(s)))

RECURSIVE MaxQ(_)
MaxQ(s) ==
    IF Len(s) = 1 THEN s[1]
    ELSE LET m == MaxQ(Tail(s)) IN IF Lt(m, Head(s)) THEN Head(s) ELSE m

RECURSIVE MinQ(_)
MinQ(s) ==
    IF Len(s) = 1 THEN s[1]
    ELSE LET m == MinQ(Tail(s)) IN IF Lt(Head(s), m) THEN Head(s) ELSE m

\* numpy.clip(x, lo, hi)
Clip(x, lo, hi) == IF Lt(x, lo) THEN lo ELSE IF Lt(hi, x) THEN hi ELSE x

\* floor of the square root of a natural number below 2^31, by bisection:
\* lo * lo <= n < hi * hi throughout
RECURSIVE ISqrtIn(_, _, _)
ISqrtIn(n, lo, hi) ==
    IF hi - lo <= 1 THEN lo
    ELSE LET mid == (lo + hi) \div 2
         IN  IF mid * mid <= n THEN ISqrtIn(n, mid, hi) ELSE ISqrtIn(n, lo, mid)
ISqrt(n) == ISqrtIn(n, 0, 46341)
IsSquare(n) == ISqrt(n) * ISqrt(n) = n

\* Matrices are sequences of rows; a row is a sequence of numbers.
NRows(X) == Len(X)
NCols(X) == Len(X[1])
Column(X, j) == [i \in 1..NRows(X) |-> X[i][j]]
Flatten(X) == [k \in 1..(NRows(X) * NCols(X)) |->
                  X[((k - 1) \div NCols(X)) + 1][((k - 1) % NCols(X)) + 1]]
Matrices(r, c, S) == [1..r -> [1..c -> S]]

-----------------------------------------------------------------------------
(* Bounds of the model.                                                    *)

\* rows of a marginal dataset
MaxRows == 3
\* examples in a batch handed to or produced by a layer
MaxBatch == 2

\* 1e-7 is 1 / EpsDen
EpsDen == 10000000
Eps == Q(1, EpsDen)
One == Whole(1)

\* IsingVisible.nvis
nvis == 2

Bool01(p) == IF p THEN 1 ELSE 0
Spins == {-1, 1}
IsSpinMatrix(X) == \A i \in 1..Len(X) : \A j \in 1..Len(X[i]) : X[i][j] \in Spins

Raised(e) == [status |-> e, value |-> None]
Ok(v)     == [status |-> "ok", value |-> v]

-----------------------------------------------------------------------------
(* Biases, stored as exp(2b).                                              *)

ZeroBias == One
\* numpy.arctanh(m), -1 < m < 1:  exp(2 arctanh m) = (1 + m) / (1 - m)
Arctanh(m) == Div(Add(One, m), Sub(One, m))
\* tanh(b) = (exp(2b) - 1) / (exp(2b) + 1)
Tanh(e) == Div(Sub(e, One), Add(e, One))
\* sigmoid(2b) = exp(2b) / (1 + exp(2b))
Sigmoid2(e) == Div(e, Add(One, e))

Mean(col) == Div(SumQ(col), Whole(Len(col)))

\* values a design matrix entry takes: -1, 1/2, +1
DataVals == {Whole(-1), Q(1, 2), One}
Datasets == UNION {Matrices(r, nvis, DataVals) : r \in 1..MaxRows}
IsPlusMinusOne(X) ==
    \A i \in 1..NRows(X) : \A j \in 1..NCols(X) : X[i][j] \in {Whole(-1), One}

init_tanh_bias_from_marginals(X) ==
    IF MaxQ(Flatten(X)) # One THEN Raised("ValueError")
    ELSE IF MinQ(Flatten(X)) # Whole(-1) THEN Raised("AssertionError")
    ELSE LET mean == [j \in 1..NCols(X) |-> Mean(Column(X, j))]
             clipped == [j \in 1..NCols(X) |-> Clip(mean[j], Eps, Sub(One, Eps))]
         IN  Ok([j \in 1..NCols(X) |-> Arctanh(clipped[j])])

\* IsingVisible.__init__: the bias the new layer holds, or the error raised
IsingVisible_init(bias_from_marginals) ==
    IF bias_from_marginals = None
    THEN Ok([j \in 1..nvis |-> ZeroBias])
    ELSE init_tanh_bias_from_marginals(bias_from_marginals)

\* numpy_rng.uniform(0., 1., shape) draws from [0, 1)
Drivers == {Whole(0), Q(1, 4), Q(1, 2), Q(3, 4)}

\* make_state of either layer: driver < sigmoid(2 * bias), mapped to spins
make_state(biasvec, driver) ==
    LET on_prob == [j \in 1..Len(biasvec) |-> Sigmoid2(biasvec[j])]
    IN  [i \in 1..NRows(driver) |->
            [j \in 1..NCols(driver) |-> 2 * Bool01(Lt(driver[i][j], on_prob[j])) - 1]]

-----------------------------------------------------------------------------
(* Spaces (pylearn2.space) and the linear transform (pylearn2.linear).     *)
(* A space is <<"VectorSpace", dim>> or <<"Conv2DSpace", rows, cols,       *)
(* nchannels>>.  A batch is known by its shape <<batch, ...>> and by       *)
(* whether it carries a debug (test) value.                                *)

IsVectorSpace(sp) == sp[1] = "VectorSpace"
VectorSpace(n) == <<"VectorSpace", n>>
Conv2DSpace(r, c, ch) == <<"Conv2DSpace", r, c, ch>>

RECURSIVE Prod(_)
Prod(s) == IF s = <<>> THEN 1 ELSE Head(s) * Prod(Tail(s))

get_total_dimension(sp) == IF IsVectorSpace(sp) THEN sp[2] ELSE sp[2] * sp[3] * sp[4]

\* input_space.format_as(batch, desired_space): reshape to (batch, total dimension)
format_as(shape, sp) ==
    IF Prod(Tail(shape)) = get_total_dimension(sp)
    THEN Ok(<<shape[1], get_total_dimension(sp)>>)
    ELSE Raised("ValueError")

\* transformer.lmul(x) = dot(x, W): (batch, input_dim) . (input_dim, dim)
lmul(shape, Wm) ==
    IF Len(shape) = 2 /\ shape[2] = NRows(Wm)
    THEN Ok(<<shape[1], NCols(Wm)>>)
    ELSE Raised("ValueError")

\* transformer.lmul_T(x) = dot(x, W.T): (batch, dim) . (dim, input_dim)
lmul_T(shape, Wm) ==
    IF Len(shape) = 2 /\ shape[2] = NCols(Wm)
    THEN Ok(<<shape[1], NRows(Wm)>>)
    ELSE Raised("ValueError")

-----------------------------------------------------------------------------
(* IsingHidden.                                                            *)

\* IsingHidden.dim
dim == 2
\* self.dbm.batch_size
batch_size == 1

layer_name == "h"

\* IsingHidden.__init__: b = zeros(dim) + init_bias
IsingHidden_init(c) == [j \in 1..dim |-> c.init_bias]

UnsetSpace == [input_space |-> None, requires_reformat |-> FALSE, input_dim |-> 0]

\* set_input_space: the fields assigned before W is built
SpaceFields(sp) ==
    IF IsVectorSpace(sp)
    THEN [input_space |-> sp, requires_reformat |-> FALSE, input_dim |-> sp[2]]
    ELSE [input_space |-> sp, requires_reformat |-> TRUE,
          input_dim |-> get_total_dimension(sp)]

\* rng.uniform(-irange, irange, shape) * (rng.uniform(0., 1., shape) < include_prob);
\* u holds the first draw as a fraction of irange in [-1, 1), m the second draw
DenseW(c, u, m) ==
    [i \in 1..NRows(u) |-> [j \in 1..NCols(u) |->
        Mul(Mul(c.irange, u[i][j]), Whole(Bool01(Lt(m[i][j], c.include_prob))))]]

\* np.zeros(shape) * sparse_stdev
SparseW(c, r, k) == [i \in 1..r |-> [j \in 1..k |-> Mul(Whole(0), c.sparse_stdev)]]

\* set_input_space with the two assertions dropped
set_input_space_NoAssert(c, Wm, sp, u, m) ==
    LET f == SpaceFields(sp) IN
    IF c.irange # None
    THEN [status |-> "ok", space |-> f, W |-> DenseW(c, u, m)]
    ELSE [status |-> "ok", space |-> f, W |-> SparseW(c, f.input_dim, dim)]

\* set_input_space(space): [status, space, W] after the call
set_input_space(c, Wm, sp, u, m) ==
    LET f == SpaceFields(sp) IN
    IF c.irange # None
    THEN IF c.sparse_init # None
         THEN [status |-> "AssertionError", space |-> f, W |-> Wm]
         ELSE [status |-> "ok", space |-> f, W |-> DenseW(c, u, m)]
    ELSE IF c.sparse_init = None
         THEN [status |-> "AssertionError", space |-> f, W |-> Wm]
         ELSE [status |-> "ok", space |-> f, W |-> SparseW(c, f.input_dim, dim)]

Sqr(x) == Mul(x, x)
\* exact on the squares of rationals, which is all the model takes roots of
Sqrt(x) == Q(ISqrt(Num(x)), ISqrt(Den(x)))
IsRationalSquare(x) == Num(x) >= 0 /\ IsSquare(Num(x)) /\ IsSquare(Den(x))

\* T.sqrt(T.sum(T.sqr(M), axis=0))
col_norms(M) == [j \in 1..NCols(M) |-> Sqrt(SumQ([i \in 1..NRows(M) |-> Sqr(M[i][j])]))]

\* the guard 1e-7 of censor_updates, in multiples of 1e-7
NormGuard == Mul(Eps, Whole(EpsDen))

\* censor_updates with the clip of the norms dropped
CensoredW_NoClip(updated_W, max_col_norm) ==
    LET norms == col_norms(updated_W)
    IN  [i \in 1..NRows(updated_W) |-> [j \in 1..NCols(updated_W) |->
            Mul(updated_W[i][j], Div(norms[j], Add(NormGuard, norms[j])))]]

\* censor_updates scaling by min(1, max_col_norm / (norm + guard))
CensoredW_MinOne(updated_W, max_col_norm) ==
    LET norms == col_norms(updated_W)
        scale == [j \in 1..NCols(updated_W) |->
                     Clip(Div(max_col_norm, Add(NormGuard, norms[j])), Whole(0), One)]
    IN  [i \in 1..NRows(updated_W) |-> [j \in 1..NCols(updated_W) |->
            Mul(updated_W[i][j], scale[j])]]

\* censor_updates scaling every column to max_col_norm
CensoredW_ToMax(updated_W, max_col_norm) ==
    LET norms == col_norms(updated_W)
    IN  [i \in 1..NRows(updated_W) |-> [j \in 1..NCols(updated_W) |->
            Mul(updated_W[i][j], Div(max_col_norm, Add(NormGuard, norms[j])))]]

\* the value censor_updates stores in updates[W]
CensoredW(updated_W, max_col_norm) ==
    LET norms == col_norms(updated_W)
        desired_norms == [j \in 1..NCols(updated_W) |->
                             Clip(norms[j], Whole(0), max_col_norm)]
    IN  [i \in 1..NRows(updated_W) |-> [j \in 1..NCols(updated_W) |->
            Mul(updated_W[i][j], Div(desired_norms[j], Add(NormGuard, norms[j])))]]

\* censor_updates(updates): [status, updates] after the call.  An update map
\* is None (W is not a key) or <<M>> (W is a key, M its proposed value).
censor_updates(c, Wm, upd) ==
    IF c.max_col_norm = None THEN [status |-> "ok", updates |-> upd]
    ELSE IF Wm = None THEN [status |-> "AttributeError", updates |-> upd]
    ELSE IF upd = None THEN [status |-> "ok", updates |-> upd]
    ELSE [status |-> "ok", updates |-> <<CensoredW(upd[1], c.max_col_norm)>>]

\* a handle that is not None: a random source, the layer above
Some(name) == <<name>>

\* theano_rng.binomial(size=shape, n=1, p=on_prob): sigmoid maps every finite
\* z into (0, 1), so each entry can come out 0 or 1; draws holds the outcomes
binomial(draws, shape) == [i \in 1..shape[1] |-> [j \in 1..shape[2] |-> draws[i][j]]]

\* shape of x + y for a matrix x and a matrix or vector y (numpy broadcasting)
Broadcast(x, y) ==
    LET yy == IF Len(y) = 1 THEN <<1, y[1]>> ELSE y
        fits(p, q) == p = q \/ p = 1 \/ q = 1
        mx(p, q) == IF p >= q THEN p ELSE q
    IN  IF Len(x) = 2 /\ Len(yy) = 2 /\ fits(x[1], yy[1]) /\ fits(x[2], yy[2])
        THEN Ok(<<mx(x[1], yy[1]), mx(x[2], yy[2])>>)
        ELSE Raised("ValueError")

\* Space.validate(batch): a vector space takes matrices, a Conv2DSpace 4-tensors
validate(sp, shape) ==
    IF Len(shape) = (IF IsVectorSpace(sp) THEN 2 ELSE 4) THEN Ok(shape)
    ELSE Raised("ValueError")

\* the loop over get_debug_values(state_below) of mf_update and
\* expected_energy_term; it runs only on a batch that carries a debug value
debug_checks(sp, sb) ==
    IF sp.requires_reformat /\ sb.debug
    THEN IF sb.shape[1] # batch_size THEN Raised("ValueError")
         ELSE IF Prod(Tail(sb.shape)) # sp.input_dim THEN Raised("AssertionError")
         ELSE Ok(sb.shape)
    ELSE Ok(sb.shape)

\* z = self.transformer.lmul(state_below) + self.b  [+ msg]
PreActivation(Wm, bvec, shape, msg) ==
    LET l == lmul(shape, Wm) IN
    IF l.status # "ok" THEN l
    ELSE LET z == Broadcast(l.value, <<Len(bvec)>>) IN
         IF z.status # "ok" \/ msg = None THEN z ELSE Broadcast(z.value, msg)

\* the message of the layer above this hidden layer: a (batch, dim) batch
MsgFromAbove(state_above) == <<state_above[1], dim>>

\* sample returning the binomial draws themselves
IsingHidden_sample_NoRescale(sp, Wm, bvec, sb, state_above, layer_above, theano_rng, draws) ==
    IF theano_rng = None \/ sp.input_space = None \/ Wm = None
    THEN Raised("ValueError")
    ELSE LET z == PreActivation(Wm, bvec, sb.shape, None) IN
         IF z.status # "ok" THEN z ELSE Ok(binomial(draws, z.value))

IsingHidden_sample(sp, Wm, bvec, sb, state_above, layer_above, theano_rng, draws) ==
    IF theano_rng = None THEN Raised("ValueError")
    ELSE IF state_above # None /\ layer_above = None THEN Raised("AttributeError")
    ELSE IF sp.input_space = None THEN Raised("AttributeError")
    ELSE LET msg == IF state_above # None THEN MsgFromAbove(state_above) ELSE None
             below == IF sp.requires_reformat
                      THEN format_as(sb.shape, sp.input_space)
                      ELSE Ok(sb.shape)
         IN  IF below.status # "ok" THEN below
             ELSE IF Wm = None THEN Raised("AttributeError")
             ELSE LET z == PreActivation(Wm, bvec, below.value, msg) IN
                  IF z.status # "ok" THEN z
                  ELSE Ok([i \in 1..z.value[1] |-> [j \in 1..z.value[2] |->
                              binomial(draws, z.value)[i][j] * 2 - 1]])

\* mf_update returns tanh(z); the model keeps the shape of z
IsingHidden_mf_update(sp, Wm, bvec, sb, state_above, layer_above) ==
    IF sp.input_space = None THEN Raised("AttributeError")
    ELSE IF validate(sp.input_space, sb.shape).status # "ok"
    THEN validate(sp.input_space, sb.shape)
    ELSE IF debug_checks(sp, sb).status # "ok" THEN debug_checks(sp, sb)
    ELSE LET below == IF sp.requires_reformat
                      THEN format_as(sb.shape, sp.input_space)
                      ELSE Ok(sb.shape)
         IN  IF below.status # "ok" THEN below
             ELSE IF state_above # None /\ layer_above = None
             THEN Raised("AssertionError")
             ELSE IF Wm = None THEN Raised("AttributeError")
             ELSE PreActivation(Wm, bvec, below.value,
                      IF state_above # None THEN MsgFromAbove(state_above) ELSE None)

\* expected_energy_term returns one energy per example; the model keeps the shape
IsingHidden_expected_energy_term(sp, Wm, bvec, state, sb) ==
    IF sp.input_space = None \/ Wm = None THEN Raised("AttributeError")
    ELSE IF validate(sp.input_space, sb.shape).status # "ok"
    THEN validate(sp.input_space, sb.shape)
    ELSE IF debug_checks(sp, sb).status # "ok" THEN debug_checks(sp, sb)
    ELSE LET below == IF sp.requires_reformat
                      THEN format_as(sb.shape, sp.input_space)
                      ELSE Ok(sb.shape)
         IN  IF below.status # "ok" THEN below
             ELSE IF Len(state) # 2 \/ state[2] # Len(bvec) THEN Raised("ValueError")
             ELSE LET l == lmul(below.value, Wm) IN
                  IF l.status # "ok" THEN l
                  ELSE IF Broadcast(l.value, state).status # "ok"
                  THEN Broadcast(l.value, state)
                  ELSE Ok(<<Broadcast(l.value, state).value[1]>>)

\* downward_message: lmul_T, reshaped to the input space when it is not flat
IsingHidden_downward_message(sp, Wm, downward_state) ==
    IF Wm = None THEN Raised("AttributeError")
    ELSE LET rval == lmul_T(downward_state, Wm) IN
         IF rval.status # "ok" \/ ~sp.requires_reformat THEN rval
         ELSE Ok(<<rval.value[1], sp.input_space[2], sp.input_space[3],
                   sp.input_space[4]>>)

\* get_weight_decay(coeff) = coeff * sum(W ** 2)
get_weight_decay(Wm, coeff) ==
    IF Wm = None THEN Raised("AttributeError")
    ELSE Ok(Mul(coeff, SumQ([k \in 1..Len(Flatten(Wm)) |-> Sqr(Flatten(Wm)[k])])))

\* get_lr_scalers: the scale of W (if set), then the scale of b (if set)
get_lr_scalers(c, Wm) ==
    IF c.W_lr_scale # None /\ Wm = None THEN Raised("AttributeError")
    ELSE Ok((IF c.W_lr_scale # None THEN <<<<"W", c.W_lr_scale>>>> ELSE <<>>)
            \o (IF c.b_lr_scale # None THEN <<<<"b", c.b_lr_scale>>>> ELSE <<>>))

\* get_params: the transformer's parameter, then b
IsingHidden_get_params(Wm, bvec) ==
    IF Wm = None THEN Raised("AttributeError") ELSE Ok(<<Wm, bvec>>)

get_weights(sp, Wm) ==
    IF sp.requires_reformat THEN Raised("NotImplementedError")
    ELSE IF Wm = None THEN Raised("AttributeError")
    ELSE Ok(Wm)

\* the expressions get_monitoring_channels returns, by key
get_monitoring_channels(Wm) ==
    IF Wm = None THEN Raised("AttributeError")
    ELSE Ok(<<"row_norms_min", "row_norms_mean", "row_norms_max",
              "col_norms_min", "col_norms_mean", "col_norms_max">>)

\* the expressions get_monitoring_channels_from_state returns, by key
get_monitoring_channels_from_state(state) ==
    Ok(<<"max_x.max_u", "max_x.mean_u", "max_x.min_u",
         "min_x.max_u", "min_x.mean_u", "min_x.min_u",
         "range_x.max_u", "range_x.mean_u", "range_x.min_u",
         "mean_x.max_u", "mean_x.mean_u", "mean_x.min_u">>)

\* set_weights(weights): [status, W] after the call
set_weights(Wm, weights) ==
    IF Wm = None THEN [status |-> "AttributeError", W |-> Wm]
    ELSE [status |-> "ok", W |-> weights]

\* set_biases(biases, recenter) of either layer: [status, b] after the call;
\* neither layer has a center attribute, so recenter fails after the write
set_biases(biases, recenter) ==
    [status |-> IF recenter THEN "AttributeError" ELSE "ok", b |-> biases]

-----------------------------------------------------------------------------
(* IsingVisible operations on a constructed layer.                         *)

\* sample: the layer above is the hidden layer, wired to the visible space
IsingVisible_sample(sp, Wm, vbias, state_below, state_above, layer_above, theano_rng, draws) ==
    IF state_below # None THEN Raised("AssertionError")
    ELSE IF layer_above = None THEN Raised("AttributeError")
    ELSE LET msg == IsingHidden_downward_message(sp, Wm, state_above) IN
         IF msg.status # "ok" THEN msg
         ELSE LET z == Broadcast(msg.value, <<Len(vbias)>>) IN
              IF z.status # "ok" THEN z
              ELSE IF theano_rng = None THEN Raised("AttributeError")
              ELSE Ok([i \in 1..z.value[1] |-> [j \in 1..z.value[2] |->
                          binomial(draws, z.value)[i][j] * 2 - 1]])

\* expected_energy_term returns -dot(state, bias): one energy per example
IsingVisible_expected_energy_term(vbias, state, average, state_below, average_below) ==
    IF state_below # None \/ average_below # None THEN Raised("AssertionError")
    ELSE IF average \notin BOOLEAN THEN Raised("AssertionError")
    ELSE IF validate(VectorSpace(nvis), state).status # "ok"
    THEN validate(VectorSpace(nvis), state)
    ELSE IF state[2] # Len(vbias) THEN Raised("ValueError")
    ELSE Ok(<<state[1]>>)

-----------------------------------------------------------------------------
(* Inputs.                                                                 *)

\* rescalings of one proposal by censor_updates
MaxCensor == 2

Cfg(ir, si, mcn) ==
    [irange |-> ir, sparse_init |-> si, sparse_stdev |-> One,
     include_prob |-> Q(1, 2), init_bias |-> ZeroBias,
     W_lr_scale |-> Whole(2), b_lr_scale |-> None, max_col_norm |-> mcn]

Cfgs == {Cfg(ir, si, None) : ir \in {None, Whole(4)}, si \in {None, Whole(1)}}
            \cup {Cfg(Whole(4), None, Whole(2))}
CensorCfgs == {Cfg(Whole(4), None, mcn) : mcn \in {None, Whole(1), Whole(2)}}

InputSpaces == {VectorSpace(nvis), Conv2DSpace(1, 3, 1)}

\* first and second rng.uniform draw of set_input_space, per entry
UDraw1(r, k) == [i \in 1..r |-> [j \in 1..k |-> Q(-1, 1)]]
UDraw2(r, k) == [i \in 1..r |-> [j \in 1..k |-> IF i = j THEN Q(1, 2) ELSE Q(-1, 2)]]
MDraw1(r, k) == [i \in 1..r |-> [j \in 1..k |-> Whole(0)]]
MDraw2(r, k) == [i \in 1..r |-> [j \in 1..k |-> IF i = 1 THEN Q(3, 4) ELSE Q(1, 4)]]
RngDraws(r, k) == {<<UDraw1(r, k), MDraw1(r, k)>>, <<UDraw2(r, k), MDraw2(r, k)>>}

\* the last two entries of columns with a rational norm: 0, 1, 2 and 5
ColumnVals == {<<0, 0>>, <<0, 1>>, <<0, 2>>, <<3, 4>>}
\* an r x dim matrix with columns c[1], ..., c[dim], zero above their last two entries
WithColumns(r, c) ==
    [i \in 1..r |-> [j \in 1..dim |-> Whole(IF i <= r - 2 THEN 0 ELSE c[j][i - (r - 2)])]]
\* proposed values of an r x dim weight matrix
Proposals(r) == {WithColumns(r, c) : c \in [1..dim -> ColumnVals]}
FewProposals(r) == {WithColumns(r, <<(<<0, 1>>), (<<3, 4>>)>>)}

\* weights handed to set_weights, for an r x dim matrix
WeightInputs(r) == {[i \in 1..r |-> [j \in 1..dim |-> Whole(v)]] : v \in {1, 3}}

FewWeightInputs(r) == {[i \in 1..r |-> [j \in 1..dim |-> Whole(3)]]}

\* values handed to set_biases, as exp(2b)
BiasInputs(n) == {[j \in 1..n |-> e] : e \in {Q(1, 3), Whole(3)}}
FewBiasInputs(n) == {[j \in 1..n |-> Whole(3)]}

Shape2(n, k) == <<n, k>>
\* batches handed to the hidden layer as state_below
BelowShapes ==
    {Shape2(n, nvis) : n \in 1..MaxBatch}
    \cup {<<n, 1, k, 1>> : n \in 1..MaxBatch, k \in {2, 3}}
BelowBatches ==
    {[shape |-> sh, debug |-> d] : sh \in BelowShapes, d \in BOOLEAN}
\* batches of hidden states
HiddenShapes == {Shape2(n, dim) : n \in 1..MaxBatch}
\* (state_above, layer_above, theano_rng) of a sample or mf_update call
AboveArgs ==
    {<<None, None, Some("rng")>>, <<None, None, None>>,
     <<Shape2(1, dim), Some("h2"), Some("rng")>>, <<Shape2(1, dim), None, Some("rng")>>}

BitDraws(n, k) == Matrices(n, k, {0, 1})
FewBitDraws(n, k) == {[i \in 1..n |-> [j \in 1..k |-> (i + j + v) % 2]] : v \in {0, 1}}
DriverDraws(n, k) == Matrices(n, k, {Q(1, 4), Q(3, 4)})
FewDriverDraws(n, k) == {[i \in 1..n |-> [j \in 1..k |-> e]] : e \in {Q(1, 4), Q(3, 4)}}

NoCall == [op |-> "none", args |-> <<>>, status |-> "ok", value |-> None]
Call(op, args, res) ==
    ret' = [op |-> op, args |-> args, status |-> res.status, value |-> res.value]

params == <<bias, b, W>>
hidden == <<cfg, b, W, space>>
pending == <<updates, proposed, ncensor>>
chain == <<vState, hState>>

-----------------------------------------------------------------------------
(* Operations of the hidden layer.                                         *)

SetInputSpace(sp, draws) ==
    LET r == set_input_space(cfg, W, sp, draws[1], draws[2]) IN
    /\ space' = r.space
    /\ W' = r.W
    \* a new shared variable W is no key of the pending update map
    /\ updates' = IF r.status = "ok" THEN None ELSE updates
    /\ Call("set_input_space", <<sp>>, [status |-> r.status, value |-> None])
    /\ UNCHANGED <<marginals, bias, cfg, b, proposed, ncensor, chain>>

SetWeights(weights) ==
    LET r == set_weights(W, weights) IN
    /\ W' = r.W
    /\ Call("set_weights", <<weights>>, [status |-> r.status, value |-> None])
    /\ UNCHANGED <<marginals, bias, cfg, b, space, pending, chain>>

SetBiases(biases, recenter) ==
    LET r == set_biases(biases, recenter) IN
    /\ b' = r.b
    /\ Call("set_biases", <<biases, recenter>>, [status |-> r.status, value |-> None])
    /\ UNCHANGED <<marginals, bias, cfg, W, space, pending, chain>>

\* the optimizer proposes a new value for W (or for other parameters only)
Propose(M) ==
    /\ W # None
    /\ updates' = M
    /\ proposed' = M
    /\ ncensor' = 0
    /\ Call("propose", <<>>, Ok(None))
    /\ UNCHANGED <<marginals, bias, hidden, chain>>

CensorUpdates ==
    LET r == censor_updates(cfg, W, updates) IN
    /\ ncensor < MaxCensor
    /\ updates' = r.updates
    /\ proposed' = updates
    /\ ncensor' = IF cfg.max_col_norm # None /\ r.status = "ok" /\ updates # None
                  THEN ncensor + 1 ELSE ncensor
    /\ Call("censor_updates", <<>>, [status |-> r.status, value |-> None])
    /\ UNCHANGED <<marginals, bias, hidden, chain>>

HidSampleCall(sb, sa, la, rng, draws) ==
    /\ Call("IsingHidden.sample", <<sb.shape, sb.debug, sa, la, rng>>,
            IsingHidden_sample(space, W, b, sb, sa, la, rng, draws))
    /\ UNCHANGED <<marginals, bias, hidden, pending>>

HidSample(sb, sa, la, rng, draws) ==
    HidSampleCall(sb, sa, la, rng, draws) /\ UNCHANGED chain

\* mf_update accumulating z in self.b
MfUpdate_InPlace(sb, sa, la) ==
    /\ Call("mf_update", <<sb.shape, sb.debug, sa, la>>,
            IsingHidden_mf_update(space, W, b, sb, sa, la))
    /\ b' = [j \in 1..dim |-> Mul(b[j], Whole(3))]
    /\ UNCHANGED <<marginals, bias, cfg, W, space, pending, chain>>

MfUpdate(sb, sa, la) ==
    /\ Call("mf_update", <<sb.shape, sb.debug, sa, la>>,
            IsingHidden_mf_update(space, W, b, sb, sa, la))
    /\ UNCHANGED <<marginals, bias, hidden, pending, chain>>

HidMakeStateCall(driver) ==
    /\ Call("IsingHidden.make_state", <<NRows(driver)>>, Ok(make_state(b, driver)))
    /\ UNCHANGED <<marginals, bias, hidden, pending>>

HidMakeState(driver) == HidMakeStateCall(driver) /\ UNCHANGED chain

ExpectedEnergyTerm(state, sb) ==
    /\ Call("IsingHidden.expected_energy_term", <<state, sb.shape, sb.debug>>,
            IsingHidden_expected_energy_term(space, W, b, state, sb))
    /\ UNCHANGED <<marginals, bias, hidden, pending, chain>>

DownwardMessage(state) ==
    /\ Call("downward_message", <<state>>, IsingHidden_downward_message(space, W, state))
    /\ UNCHANGED <<marginals, bias, hidden, pending, chain>>

\* upward_state and downward_state return their argument
UpwardDownwardState(op, state) ==
    /\ Call(op, <<state>>, Ok(state))
    /\ UNCHANGED <<marginals, bias, hidden, pending, chain>>

GetParams ==
    /\ Call("IsingHidden.get_params", <<>>, IsingHidden_get_params(W, b))
    /\ UNCHANGED <<marginals, bias, hidden, pending, chain>>

GetWeights ==
    /\ Call("get_weights", <<>>, get_weights(space, W))
    /\ UNCHANGED <<marginals, bias, hidden, pending, chain>>

GetBiases ==
    /\ Call("IsingHidden.get_biases", <<>>, Ok(b))
    /\ UNCHANGED <<marginals, bias, hidden, pending, chain>>

GetWeightDecay(coeff) ==
    /\ Call("get_weight_decay", <<coeff>>, get_weight_decay(W, coeff))
    /\ UNCHANGED <<marginals, bias, hidden, pending, chain>>

GetLrScalers ==
    /\ Call("get_lr_scalers", <<>>, get_lr_scalers(cfg, W))
    /\ UNCHANGED <<marginals, bias, hidden, pending, chain>>

GetMonitoringChannels ==
    /\ Call("get_monitoring_channels", <<>>, get_monitoring_channels(W))
    /\ UNCHANGED <<marginals, bias, hidden, pending, chain>>

GetMonitoringChannelsFromState(state) ==
    /\ Call("get_monitoring_channels_from_state", <<state>>,
            get_monitoring_channels_from_state(state))
    /\ UNCHANGED <<marginals, bias, hidden, pending, chain>>

-----------------------------------------------------------------------------
(* Operations of the visible layer.                                        *)

\* IsingVisible(nvis, bias_from_marginals): a failed construction leaves no layer
VisibleInit(ds) ==
    LET r == IsingVisible_init(ds) IN
    /\ ret = NoCall
    /\ bias = None
    /\ marginals' = ds
    /\ bias' = r.value
    /\ Call("IsingVisible.__init__", <<>>, [status |-> r.status, value |-> None])
    /\ UNCHANGED <<hidden, pending, chain>>

VisSetBiases(biases, recenter) ==
    LET r == set_biases(biases, recenter) IN
    /\ bias # None
    /\ bias' = r.b
    /\ Call("IsingVisible.set_biases", <<biases, recenter>>,
            [status |-> r.status, value |-> None])
    /\ UNCHANGED <<marginals, hidden, pending, chain>>

VisGetBiases ==
    /\ bias # None
    /\ Call("IsingVisible.get_biases", <<>>, Ok(bias))
    /\ UNCHANGED <<marginals, bias, hidden, pending, chain>>

VisGetParams ==
    /\ bias # None
    /\ Call("IsingVisible.get_params", <<>>, Ok(<<bias>>))
    /\ UNCHANGED <<marginals, bias, hidden, pending, chain>>

VisUpwardState(state) ==
    /\ bias # None
    /\ Call("IsingVisible.upward_state", <<state>>, Ok(state))
    /\ UNCHANGED <<marginals, bias, hidden, pending, chain>>

VisMakeStateCall(driver) ==
    /\ bias # None
    /\ Call("IsingVisible.make_state", <<NRows(driver)>>, Ok(make_state(bias, driver)))
    /\ UNCHANGED <<marginals, bias, hidden, pending>>

VisMakeState(driver) == VisMakeStateCall(driver) /\ UNCHANGED chain

\* the DBM wires the hidden layer above the visible layer to the visible space
VisSampleCall(sb, sa, la, rng, draws) ==
    /\ bias # None
    /\ space.input_space = VectorSpace(nvis)
    /\ Call("IsingVisible.sample", <<sb, sa, la, rng>>,
            IsingVisible_sample(space, W, bias, sb, sa, la, rng, draws))
    /\ UNCHANGED <<marginals, bias, hidden, pending>>

VisSample(sb, sa, la, rng, draws) ==
    VisSampleCall(sb, sa, la, rng, draws) /\ UNCHANGED chain

VisExpectedEnergyTerm(state, average, sb, ab) ==
    /\ bias # None
    /\ Call("IsingVisible.expected_energy_term", <<state, average, sb, ab>>,
            IsingVisible_expected_energy_term(bias, state, average, sb, ab))
    /\ UNCHANGED <<marginals, bias, hidden, pending, chain>>

-----------------------------------------------------------------------------
(* The layers of a DBM, from construction: every operation, any order.     *)

Init ==
    /\ marginals = None
    /\ bias = IsingVisible_init(None).value
    /\ cfg \in Cfgs
    /\ b = IsingHidden_init(cfg)
    /\ W = None
    /\ space = UnsetSpace
    /\ updates = None
    /\ proposed = None
    /\ ncensor = 0
    /\ vState = None
    /\ hState = None
    /\ ret = NoCall

\* one batch that fits each input space, with and without a debug value
FittingBatches == {[shape |-> Shape2(batch_size, nvis), debug |-> FALSE],
                   [shape |-> <<batch_size, 1, 3, 1>>, debug |-> TRUE]}
PlainAbove == <<None, None, Some("rng")>>
WithAbove == <<Shape2(batch_size, dim), Some("h2"), Some("rng")>>

Next ==
    \/ \E sp \in InputSpaces : \E d \in RngDraws(get_total_dimension(sp), dim) :
            SetInputSpace(sp, d)
    \/ \E w \in FewWeightInputs(IF W = None THEN nvis ELSE NRows(W)) : SetWeights(w)
    \/ \E v \in FewBiasInputs(dim), rc \in BOOLEAN : SetBiases(v, rc)
    \/ \E M \in {None} \cup {<<P>> : P \in FewProposals(IF W = None THEN nvis ELSE NRows(W))} :
            Propose(M)
    \/ CensorUpdates
    \/ \E sb \in FittingBatches, a \in {PlainAbove, WithAbove} :
            \E d \in FewBitDraws(batch_size, dim) : HidSample(sb, a[1], a[2], a[3], d)
    \/ \E sb \in FittingBatches, a \in {PlainAbove, WithAbove} : MfUpdate(sb, a[1], a[2])
    \/ \E d \in FewDriverDraws(batch_size, dim) : HidMakeState(d)
    \/ \E sb \in FittingBatches : ExpectedEnergyTerm(Shape2(batch_size, dim), sb)
    \/ DownwardMessage(Shape2(batch_size, dim))
    \/ \E op \in {"IsingHidden.upward_state", "downward_state"} :
            UpwardDownwardState(op, Shape2(batch_size, dim))
    \/ GetParams
    \/ GetWeights
    \/ GetBiases
    \/ GetWeightDecay(Q(1, 2))
    \/ GetLrScalers
    \/ GetMonitoringChannels
    \/ GetMonitoringChannelsFromState(Shape2(batch_size, dim))
    \/ \E v \in FewBiasInputs(nvis), rc \in BOOLEAN : VisSetBiases(v, rc)
    \/ VisGetBiases
    \/ VisGetParams
    \/ VisUpwardState(Shape2(batch_size, nvis))
    \/ \E d \in FewDriverDraws(batch_size, nvis) : VisMakeState(d)
    \/ \E sb \in {None, Shape2(batch_size, nvis)} : \E d \in FewBitDraws(batch_size, nvis) :
            VisSample(sb, Shape2(batch_size, dim), Some("h"), Some("rng"), d)
    \/ \E sb \in {None, Shape2(batch_size, nvis)} :
            VisExpectedEnergyTerm(Shape2(batch_size, nvis), TRUE, sb, None)

Spec == Init /\ [][Next]_vars

-----------------------------------------------------------------------------
(* Construction of the visible layer from a marginal dataset.              *)

InitMarginals ==
    /\ marginals = None
    /\ bias = None
    /\ cfg = Cfg(Whole(4), None, None)
    /\ b = IsingHidden_init(cfg)
    /\ W = None
    /\ space = UnsetSpace
    /\ updates = None
    /\ proposed = None
    /\ ncensor = 0
    /\ vState = None
    /\ hState = None
    /\ ret = NoCall

NextMarginals ==
    \/ \E ds \in {None} \cup Datasets : VisibleInit(ds)
    \/ VisGetBiases
    \/ \E d \in DriverDraws(batch_size, nvis) : VisMakeState(d)

SpecMarginals == InitMarginals /\ [][NextMarginals]_vars

-----------------------------------------------------------------------------
(* The optimizer's proposals and the column-norm projection.               *)

InitCensor ==
    /\ marginals = None
    /\ bias = IsingVisible_init(None).value
    /\ cfg \in CensorCfgs
    /\ b = IsingHidden_init(cfg)
    /\ space = SpaceFields(VectorSpace(nvis))
    /\ W \in {DenseW(cfg, d[1], d[2]) : d \in RngDraws(nvis, dim)}
    /\ updates = None
    /\ proposed = None
    /\ ncensor = 0
    /\ vState = None
    /\ hState = None
    /\ ret = NoCall

NextCensor ==
    \/ \E M \in {None} \cup {<<P>> : P \in Proposals(NRows(W))} : Propose(M)
    \/ CensorUpdates

SpecCensor == InitCensor /\ [][NextCensor]_vars

-----------------------------------------------------------------------------
(* Batches of any shape handed to a hidden layer that is set up.           *)

InitShapes ==
    /\ marginals = None
    /\ bias = IsingVisible_init(None).value
    /\ cfg = Cfg(Whole(4), None, None)
    /\ b = IsingHidden_init(cfg)
    /\ \E sp \in InputSpaces :
          /\ space = SpaceFields(sp)
          /\ W = DenseW(cfg, UDraw2(get_total_dimension(sp), dim),
                        MDraw2(get_total_dimension(sp), dim))
    /\ updates = None
    /\ proposed = None
    /\ ncensor = 0
    /\ vState = None
    /\ hState = None
    /\ ret = NoCall

NextShapes ==
    \/ \E sb \in BelowBatches, a \in AboveArgs : \E d \in FewBitDraws(MaxBatch, dim) :
            HidSample(sb, a[1], a[2], a[3], d)
    \/ \E sb \in BelowBatches, a \in AboveArgs : MfUpdate(sb, a[1], a[2])

SpecShapes == InitShapes /\ [][NextShapes]_vars

-----------------------------------------------------------------------------
(* A Gibbs chain over the two layers, run by the DBM on batch_size examples. *)

ShapeOf(X) == <<NRows(X), NCols(X)>>

GibbsSeedVisible(driver) ==
    /\ VisMakeStateCall(driver)
    /\ vState' = ret'.value
    /\ UNCHANGED hState

GibbsSeedHidden(driver) ==
    /\ HidMakeStateCall(driver)
    /\ hState' = ret'.value
    /\ UNCHANGED vState

GibbsSampleVisible(draws) ==
    /\ hState # None
    /\ VisSampleCall(None, ShapeOf(hState), Some("h"), Some("rng"), draws)
    /\ vState' = IF ret'.status = "ok" THEN ret'.value ELSE vState
    /\ UNCHANGED hState

GibbsSampleHidden(draws) ==
    /\ vState # None
    /\ HidSampleCall([shape |-> ShapeOf(vState), debug |-> FALSE], None, None,
                     Some("rng"), draws)
    /\ hState' = IF ret'.status = "ok" THEN ret'.value ELSE hState
    /\ UNCHANGED vState

InitGibbs ==
    /\ marginals = None
    /\ bias = IsingVisible_init(None).value
    /\ cfg = Cfg(Whole(4), None, None)
    /\ b = IsingHidden_init(cfg)
    /\ space = SpaceFields(VectorSpace(nvis))
    /\ W = DenseW(cfg, UDraw2(nvis, dim), MDraw2(nvis, dim))
    /\ updates = None
    /\ proposed = None
    /\ ncensor = 0
    /\ vState = None
    /\ hState = None
    /\ ret = NoCall

\* every outcome of the random source on batch_size examples, two on more
ChainDrivers(n, k) == IF n = batch_size THEN DriverDraws(n, k) ELSE FewDriverDraws(n, k)
ChainBits(n, k) == IF n = batch_size THEN BitDraws(n, k) ELSE FewBitDraws(n, k)

NextGibbs ==
    \/ \E n \in 1..MaxBatch : \E d \in ChainDrivers(n, nvis) : GibbsSeedVisible(d)
    \/ \E n \in 1..MaxBatch : \E d \in ChainDrivers(n, dim) : GibbsSeedHidden(d)
    \/ \E d \in ChainBits(IF hState = None THEN 1 ELSE NRows(hState), nvis) :
            GibbsSampleVisible(d)
    \/ \E d \in ChainBits(IF vState = None THEN 1 ELSE NRows(vState), dim) :
            GibbsSampleHidden(d)
    \/ \E v \in BiasInputs(dim) : SetBiases(v, FALSE)
    \/ \E v \in BiasInputs(nvis) : VisSetBiases(v, FALSE)
    \/ \E w \in WeightInputs(nvis) : SetWeights(w)

SpecGibbs == InitGibbs /\ [][NextGibbs]_vars

-----------------------------------------------------------------------------
(* Properties.                                                             *)

\* squared L2 norm of column j of M
SqNorm(M, j) == SumQ([i \in 1..NRows(M) |-> Sqr(M[i][j])])
Norm(M, j) == Sqrt(SqNorm(M, j))
ScaledColumn(M, j, f) == [i \in 1..NRows(M) |-> Mul(M[i][j], f)]
IsZeroColumn(M, j) == \A i \in 1..NRows(M) : M[i][j] = Whole(0)

\* every root the projection took was the root of a rational square
NormsExact ==
    updates # None => \A j \in 1..dim : IsRationalSquare(SqNorm(updates[1], j))

\* C1: building the visible bias from a design matrix with an entry other
\* than -1 and +1 raises, and no bias is stored.
C1_RejectsNonBinaryData ==
    (marginals # None /\ ~IsPlusMinusOne(marginals))
        => (bias = None /\ (ret.op = "IsingVisible.__init__" => ret.status # "ok"))

\* C2: for a -1/+1 design matrix the stored bias b has tanh(b) equal to the
\* mean of each column, within the 1e-7 of the clipping, negative means included.
C2_BiasReproducesMarginal ==
    (marginals # None /\ IsPlusMinusOne(marginals) /\ bias # None)
        => \A j \in 1..nvis :
              Le(AbsQ(Sub(Tanh(bias[j]), Mean(Column(marginals, j)))), Eps)

\* the last call was a censor_updates that rescaled updates[W]
Rescaled ==
    /\ ret.op = "censor_updates" /\ ret.status = "ok"
    /\ cfg.max_col_norm # None /\ proposed # None /\ updates # None

\* C3: after censor_updates every column of updates[W] has L2 norm at most
\* max_col_norm + 1e-7 (compared as squares), all-zero columns included.
C3_ColumnNormBounded ==
    Rescaled => \A j \in 1..dim :
        Le(SqNorm(updates[1], j), Sqr(Add(cfg.max_col_norm, NormGuard)))

C3_Witness ==
    /\ Rescaled
    /\ \E j \in 1..dim : Lt(cfg.max_col_norm, Norm(proposed[1], j))
    /\ \E j \in 1..dim : IsZeroColumn(proposed[1], j)

ExactlyOneInit(c) == (c.irange # None) # (c.sparse_init # None)

\* C6: set_input_space succeeds, installing a W of shape (input_dim, dim),
\* when exactly one of irange and sparse_init is set; otherwise it fails and
\* the layer has no W.
C6_ExactlyOneInitScheme ==
    ret.op = "set_input_space" =>
        IF ExactlyOneInit(cfg)
        THEN /\ ret.status = "ok"
             /\ W # None
             /\ NRows(W) = space.input_dim
             /\ NCols(W) = dim
        ELSE ret.status # "ok" /\ W = None

C6_Witness ==
    /\ ret.op = "set_input_space"
    /\ ret.status = "AssertionError"
    /\ cfg.irange # None /\ cfg.sparse_init # None
    /\ space.requires_reformat

\* C7: with requires_reformat, sample and mf_update fail on a state_below
\* whose batch size is not the model's or whose per-example element count is
\* not input_dim.
C7_ShapesValidated ==
    (/\ ret.op \in {"IsingHidden.sample", "mf_update"}
     /\ space.requires_reformat
     /\ \/ ret.args[1][1] # batch_size
        \/ Prod(Tail(ret.args[1])) # space.input_dim)
        => ret.status # "ok"

\* C8 as claimed: W, b and the visible bias change only in set_weights,
\* set_biases and censor_updates.
C8_ThreeWriters ==
    [][(b' # b \/ bias' # bias \/ (W # None /\ W' # W))
          => ret'.op \in {"set_weights", "set_biases", "IsingVisible.set_biases",
                          "censor_updates"}]_vars

\* C8 amended: W, b and the visible bias change only in set_weights,
\* set_biases, censor_updates and set_input_space.
C8_FourWriters ==
    [][(b' # b \/ bias' # bias \/ W' # W)
          => ret'.op \in {"set_weights", "set_biases", "IsingVisible.set_biases",
                          "censor_updates", "set_input_space"}]_vars

C8_Witness ==
    /\ ret.op = "mf_update" /\ ret.status = "ok"
    /\ W \in FewWeightInputs(3)
    /\ b \in FewBiasInputs(dim)
    /\ bias \in FewBiasInputs(nvis)

SamplingOps == {"IsingVisible.sample", "IsingHidden.sample",
                "IsingVisible.make_state", "IsingHidden.make_state"}

\* C9: every entry a sampling operation returns is -1 or +1, and so is every
\* entry of the states of a Gibbs chain seeded by make_state and advanced by sample.
C9_SpinsOnly ==
    /\ (ret.op \in SamplingOps /\ ret.status = "ok") => IsSpinMatrix(ret.value)
    /\ IsSpinMatrix(vState)
    /\ IsSpinMatrix(hState)

C9_Witness ==
    /\ ret.op = "IsingHidden.sample" /\ ret.status = "ok"
    /\ vState # None /\ hState = ret.value
    /\ \E j \in 1..dim : hState[1][j] = -1
    /\ \E j \in 1..dim : hState[1][j] = 1
    /\ b \in BiasInputs(dim)

\* C10: after a successful set_input_space b holds init_bias again, whatever
\* set_biases wrote before, and W is a fresh (input_dim, dim) matrix.
C10_SetInputSpaceResetsParams ==
    (ret.op = "set_input_space" /\ ret.status = "ok")
        => /\ b = IsingHidden_init(cfg)
           /\ NRows(W) = space.input_dim /\ NCols(W) = dim

=============================================================================
